---------------------------- MODULE Spec2Model ----------------------------
(***************************************************************************)
(* A model of the DGL winter-school notebooks:                             *)
(*   - NegativeSampler (4-large_graph/2 - Unsupervised Learning and Link   *)
(*     Prediction.ipynb): k negative destinations per positive edge,       *)
(*     drawn with torch.multinomial from in_degree ** 0.75;                *)
(*   - MultiLayerNeighborSampler (the multi-GPU notebook): the chain of    *)
(*     bipartite blocks built backwards from the seed nodes, one           *)
(*     sample_frontier + to_block per layer;                               *)
(*   - create_dataloader and train() of the multi-GPU notebooks: the       *)
(*     partition of the node ids over the ranks, the worker processes,     *)
(*     their barriers and gradient synchronisations, the checkpoint;       *)
(*   - the edge split and the negative links of the link-prediction        *)
(*     tutorial (3-basics/3_homo_link_predict.ipynb);                      *)
(*   - the constructors and forward passes of SAGE and RGCN, and the       *)
(*     layer-wise inference().                                             *)
(* Random choices are variates read from a generator.  A generator is the  *)
(* stream its seed determines, known as far as it has been read (tape),    *)
(* and a read position (pos); seeding again with the same seed rewinds     *)
(* the position.  An unseeded generator yields any variate at any read.    *)
(* The variable session tells which of the pipelines a behaviour follows.  *)
(***************************************************************************)
EXTENDS Integers, Sequences, FiniteSets

\* ------------------------------------------------------------- bounds
MaxK == 2          \* largest k of a NegativeSampler
MaxBatch == 2      \* largest number of edge ids in one batch
MaxDraws == 3      \* variates a seeded generator yields between two seedings
RngMod == 4        \* resolution of a uniform variate: u = r / RngMod, r in 0..RngMod-1
WeightScale == 10  \* fixed-point scale of a weight: weights hold floor(WeightScale * d^0.75)
MaxSeeds == 2      \* largest number of seed nodes of one batch
MaxLayers == 2     \* longest fan-out list
MaxFanout == 2     \* largest bounded fan-out
MaxWorld == 3      \* largest world_size handed to create_dataloader
MaxNids == 4       \* longest list of node ids handed to create_dataloader
MaxEdges == 5      \* largest number of edges of the link-prediction graph
TestSize == 2      \* stands for the 1000 of eids[:1000]: the size of the test split
NumWorkers == 2    \* worker processes of the multi-GPU training (the notebooks start 4)
NumEpochs == 2     \* epochs of a training loop (the notebooks run range(10))
BatchSize == 1     \* batch_size of a NodeDataLoader (the notebooks use 1024)
AccLevels == 2     \* a validation accuracy is a / AccLevels, a in 0 .. AccLevels
NegSamples == 4    \* stands for the 2000 of np.random.choice(len(neg_u), 2000)
NegTestSize == 1   \* stands for the 500 of neg_eids[:500]: a quarter of NegSamples
MaxModelLayers == 4 \* largest n_layers a model is constructed with

\* MultiLayerNeighborSampler([None]): "taking all neighbors"; sample_neighbors
\* is handed -1 for it.
TakeAll == -1

Variates == 0 .. (RngMod - 1)

\* ------------------------------------------------------------- graphs
\* A graph is [num_nodes, edges]; nodes are 0 .. num_nodes-1 and the edge with
\* id e (0-based, as in DGL) is edges[e+1] = <<source, destination>>.
ChainGraph == [num_nodes |-> 5, edges |-> << <<0,1>>, <<1,2>>, <<2,3>>, <<3,4>> >>]
\* parallel edges 0->1, a self-loop on 1, node 2 without predecessor
MultiGraph == [num_nodes |-> 3, edges |-> << <<0,1>>, <<0,1>>, <<1,1>>, <<2,0>> >>]
\* a self-loop on 1, node 2 without predecessor
LoopGraph == [num_nodes |-> 3, edges |-> << <<0,1>>, <<1,1>>, <<2,0>> >>]
\* node 3 has three predecessors, node 2 two, nodes 0 and 1 none
DiamondGraph == [num_nodes |-> 4, edges |-> << <<0,2>>, <<1,2>>, <<0,3>>, <<1,3>>, <<2,3>> >>]
\* two nodes pointing at each other
CycleGraph == [num_nodes |-> 2, edges |-> << <<0,1>>, <<1,0>> >>]
\* node 2 is isolated
IsolatedGraph == [num_nodes |-> 3, edges |-> << <<0,1>> >>]

\* no node at all
EmptyGraph == [num_nodes |-> 0, edges |-> << >>]

\* graphs of the link-prediction tutorial: a simple one, one with a parallel
\* edge, one with a self-loop
TriangleGraph == [num_nodes |-> 3, edges |-> << <<0,1>>, <<1,2>>, <<2,0>> >>]
ParallelGraph == [num_nodes |-> 3, edges |-> << <<0,1>>, <<0,1>>, <<1,2>>, <<2,0>> >>]
SelfLoopGraph == [num_nodes |-> 3, edges |-> << <<0,0>>, <<0,1>>, <<1,2>>, <<2,0>> >>]

\* the graphs of the link-prediction pipeline and of the node pipelines
NegGraphs == {LoopGraph, CycleGraph, IsolatedGraph, EmptyGraph}
BlkGraphs == {ChainGraph, MultiGraph, DiamondGraph, CycleGraph, IsolatedGraph}

NodesOf(g) == 0 .. (g.num_nodes - 1)
EdgeIds(g) == 0 .. (Len(g.edges) - 1)
EdgeSrc(g, e) == g.edges[e + 1][1]
EdgeDst(g, e) == g.edges[e + 1][2]

\* g.in_degrees(): one entry per node, the number of edges that end at it
in_degrees(g) ==
  [v \in NodesOf(g) |-> Cardinality({e \in EdgeIds(g) : EdgeDst(g, e) = v})]

\* the ids of the edges that end at v, ascending
RECURSIVE InEdgesFrom(_, _, _)
InEdgesFrom(g, v, e) ==
  IF e >= Len(g.edges) THEN << >>
  ELSE IF EdgeDst(g, e) = v THEN <<e>> \o InEdgesFrom(g, v, e + 1)
  ELSE InEdgesFrom(g, v, e + 1)

\* incoming edges with a stand-in, edge 0, for a node that has none
InEdges_or_default(g, v) ==
  IF InEdgesFrom(g, v, 0) = << >> THEN <<0>> ELSE InEdgesFrom(g, v, 0)

InEdges(g, v) == InEdgesFrom(g, v, 0)

SeqToSet(s) == {s[i] : i \in 1 .. Len(s)}

\* ---------------------------------------------------------- generator
\* A generator the program never seeded yields variates nobody can ask for
\* again.  A seeded one is the stream of its seed: tape is the part of the
\* stream read so far, pos how many variates were read since the seeding.
Unseeded == [seeded |-> FALSE, tape |-> << >>, pos |-> 0]
Seeded == [seeded |-> TRUE, tape |-> << >>, pos |-> 0]

\* the variates the generator can yield next: of a seeded generator, the one
\* its stream holds at pos, or any if the stream has not been read that far
\* (none once MaxDraws variates have been read: the model follows a seeded
\* generator no further)
NextVariates(gen) ==
  IF ~gen.seeded THEN Variates
  ELSE IF gen.pos < Len(gen.tape) THEN {gen.tape[gen.pos + 1]}
  ELSE IF gen.pos < MaxDraws THEN Variates
  ELSE {}

\* a generator whose seed does not fix its stream: what it yields is not
\* what it yields after the same seeding
Advance_unrecorded(gen, r) ==
  IF ~gen.seeded THEN gen
  ELSE [seeded |-> TRUE, tape |-> gen.tape, pos |-> gen.pos + 1]

Advance(gen, r) ==
  IF ~gen.seeded THEN gen
  ELSE [seeded |-> TRUE,
        tape |-> IF gen.pos < Len(gen.tape) THEN gen.tape ELSE Append(gen.tape, r),
        pos |-> gen.pos + 1]

\* seeding again with the seed in use: the same stream from its start
Rewind(gen) == [seeded |-> TRUE, tape |-> gen.tape, pos |-> 0]

\* ---------------------------------------------------- NegativeSampler
\* a weight that is the in-degree less one
Pow075_shifted(d) == IF d = 0 THEN 0 ELSE d - 1

\* d ** 0.75 in fixed point: the largest w with (w / WeightScale)^4 <= d^3
Pow075(d) ==
  CHOOSE w \in 0 .. (WeightScale * d) :
    /\ w * w * w * w <= WeightScale * WeightScale * WeightScale * WeightScale * d * d * d
    /\ (w + 1) * (w + 1) * (w + 1) * (w + 1)
         > WeightScale * WeightScale * WeightScale * WeightScale * d * d * d

\* NegativeSampler.__init__: self.weights = g.in_degrees().float() ** 0.75
InitWeights(g) == [v \in NodesOf(g) |-> Pow075(in_degrees(g)[v])]

\* NegativeSampler.__init__(g, k): stores k and the weights; nothing is
\* validated and nothing raises
NegativeSampler_init(g, kk) ==
  [status |-> "ok", k |-> kk, weights |-> InitWeights(g)]

\* src, _ = g.find_edges(eids)
find_edges(g, ids) == [i \in 1 .. Len(ids) |-> EdgeSrc(g, ids[i])]

\* src.repeat(k) in the place of repeat_interleave: the whole sequence k times
repeat_tiled(s, n) == [j \in 1 .. (Len(s) * n) |-> s[((j - 1) % Len(s)) + 1]]

\* src.repeat_interleave(k), k >= 0: every entry k times, in order
repeat_interleave(s, n) == [j \in 1 .. (Len(s) * n) |-> s[((j - 1) \div n) + 1]]

\* the sum of w[0 .. v]
RECURSIVE CumWeight(_, _)
CumWeight(w, v) == IF v < 0 THEN 0 ELSE w[v] + CumWeight(w, v - 1)

TotalWeight(w) == CumWeight(w, Cardinality(DOMAIN w) - 1)

\* the inversion with <= in the place of <: a variate of 0 selects index 0
\* whatever its weight
InvertCdfInclusive(w, r) ==
  CHOOSE v \in DOMAIN w :
    /\ r * TotalWeight(w) <= CumWeight(w, v) * RngMod
    /\ \A u \in DOMAIN w : u < v => ~(r * TotalWeight(w) <= CumWeight(w, u) * RngMod)

\* a draw that ignores the weights: every index as likely as any other
InvertCdfAt_uniform(w, r, res) == (r * Cardinality(DOMAIN w)) \div res

\* one draw of multinomial from the variate u = r / res: the first index
\* whose cumulative weight exceeds u * total
InvertCdfAt(w, r, res) ==
  CHOOSE v \in DOMAIN w :
    /\ r * TotalWeight(w) < CumWeight(w, v) * res
    /\ \A u \in DOMAIN w : u < v => ~(r * TotalWeight(w) < CumWeight(w, u) * res)

\* the draw from a variate of the generator
InvertCdf(w, r) == InvertCdfAt(w, r, RngMod)

\* weights.multinomial(n, replacement=True), n >= 1 and a positive total:
\* n draws, each from the whole weight vector; every way the generator can
\* go on, as [out, gen]
RECURSIVE multinomial(_, _, _)
multinomial(w, n, gen) ==
  IF n = 0 THEN {[out |-> << >>, gen |-> gen]}
  ELSE UNION { { [out |-> <<d.node>> \o o.out, gen |-> o.gen] :
                   o \in multinomial(w, n - 1, d.gen) } :
               d \in { [node |-> InvertCdf(w, r), gen |-> Advance(gen, r)] :
                         r \in NextVariates(gen) } }

\* a sampler that gives up on a batch when a drawn pair is an edge of the
\* graph or a self pair
NegativeSampler_call_filtered(g, kk, w, ids, gen) ==
  IF kk < 0 THEN {[status |-> "error", src |-> << >>, dst |-> << >>, gen |-> gen]}
  ELSE LET src == repeat_interleave(find_edges(g, ids), kk)
       IN IF Len(src) = 0 \/ TotalWeight(w) = 0
          THEN {[status |-> "error", src |-> << >>, dst |-> << >>, gen |-> gen]}
          ELSE { [status |-> "ok", src |-> src, dst |-> o.out, gen |-> o.gen] :
                   o \in { q \in multinomial(w, Len(src), gen) :
                             \A i \in 1 .. Len(src) :
                               /\ src[i] # q.out[i]
                               /\ \A e \in EdgeIds(g) :
                                    ~(EdgeSrc(g, e) = src[i] /\ EdgeDst(g, e) = q.out[i]) } }

\* a sampler that draws one negative per edge when k is below 1
NegativeSampler_call_clamped(g, kk, w, ids, gen) ==
  LET src == repeat_interleave(find_edges(g, ids), IF kk < 1 THEN 1 ELSE kk)
  IN IF Len(src) = 0 \/ TotalWeight(w) = 0
     THEN {[status |-> "error", src |-> << >>, dst |-> << >>, gen |-> gen]}
     ELSE { [status |-> "ok", src |-> src, dst |-> o.out, gen |-> o.gen] :
              o \in multinomial(w, Len(src), gen) }

\* NegativeSampler.__call__(g, eids): every result it can return, as
\* [status, src, dst, gen].  repeat_interleave raises on a negative k;
\* multinomial raises when asked for no sample or when no weight is positive.
NegativeSampler_call(g, kk, w, ids, gen) ==
  IF kk < 0 THEN {[status |-> "error", src |-> << >>, dst |-> << >>, gen |-> gen]}
  ELSE LET src == repeat_interleave(find_edges(g, ids), kk)
       IN IF Len(src) = 0 \/ TotalWeight(w) = 0
          THEN {[status |-> "error", src |-> << >>, dst |-> << >>, gen |-> gen]}
          ELSE { [status |-> "ok", src |-> src, dst |-> o.out, gen |-> o.gen] :
                   o \in multinomial(w, Len(src), gen) }

\* the batches the negative sampler is called with: up to MaxBatch edge ids
\* of the graph (an EdgeDataLoader hands over at least one)
RECURSIVE SeqsUpTo(_, _)
SeqsUpTo(S, n) ==
  IF n = 0 THEN {<< >>}
  ELSE LET shorter == SeqsUpTo(S, n - 1)
       IN shorter \cup {Append(s, x) : s \in {t \in shorter : Len(t) = n - 1}, x \in S}

Batches(g) == SeqsUpTo(EdgeIds(g), MaxBatch)

\* ------------------------------------------ MultiLayerNeighborSampler
RemoveAt(s, i) == SubSeq(s, 1, i - 1) \o SubSeq(s, i + 1, Len(s))

\* a sampler that picks with replacement: a picked candidate stays among the
\* candidates
RECURSIVE PickWithReplacement(_, _, _)
PickWithReplacement(cands, n, gen) ==
  IF n = 0 THEN {[picked |-> << >>, gen |-> gen]}
  ELSE UNION { { [picked |-> <<cands[d.i]>> \o o.picked, gen |-> o.gen] :
                   o \in PickWithReplacement(cands, n - 1, d.gen) } :
               d \in { [i |-> ((r * Len(cands)) \div RngMod) + 1,
                        gen |-> Advance(gen, r)] : r \in NextVariates(gen) } }

\* n of the candidates, without replacement: each pick reads one variate and
\* takes the candidate at floor(u * |candidates left|); as [picked, gen]
RECURSIVE PickWithoutReplacement(_, _, _)
PickWithoutReplacement(cands, n, gen) ==
  IF n = 0 THEN {[picked |-> << >>, gen |-> gen]}
  ELSE UNION { { [picked |-> <<cands[d.i]>> \o o.picked, gen |-> o.gen] :
                   o \in PickWithoutReplacement(RemoveAt(cands, d.i), n - 1, d.gen) } :
               d \in { [i |-> ((r * Len(cands)) \div RngMod) + 1,
                        gen |-> Advance(gen, r)] : r \in NextVariates(gen) } }

\* a sampler that ignores the fan-out: every incoming edge of the node
SampleInEdges_all(g, v, fanout, gen) ==
  {[picked |-> InEdges(g, v), gen |-> gen]}

\* the incoming edges sampled for one node: all of them when the fan-out is
\* TakeAll or the node has no more than fanout, else fanout of them (none
\* for a fan-out of 0: nothing is validated, nothing raises)
SampleInEdges(g, v, fanout, gen) ==
  LET cands == InEdges(g, v)
  IN IF fanout = TakeAll \/ Len(cands) <= fanout
     THEN {[picked |-> cands, gen |-> gen]}
     ELSE PickWithoutReplacement(cands, fanout, gen)

\* dgl.sampling.sample_neighbors(g, seed_nodes, fanout): the sampled incoming
\* edges of every seed node, node after node; as [frontier, gen], frontier
\* the sequence of the sampled edge ids
RECURSIVE sample_neighbors(_, _, _, _)
sample_neighbors(g, nodes, fanout, gen) ==
  IF nodes = << >> THEN {[frontier |-> << >>, gen |-> gen]}
  ELSE UNION { { [frontier |-> p.picked \o o.frontier, gen |-> o.gen] :
                   o \in sample_neighbors(g, Tail(nodes), fanout, p.gen) } :
               p \in SampleInEdges(g, Head(nodes), fanout, gen) }

\* MultiLayerNeighborSampler.sample_frontier(layer_id, g, seed_nodes);
\* layer_id counts from 0
sample_frontier(fans, layer_id, g, nodes, gen) ==
  sample_neighbors(g, nodes, fans[layer_id + 1], gen)

\* the sources of the frontier's edges, one entry per edge
RECURSIVE NewSources_per_edge(_, _, _)
NewSources_per_edge(g, frontier, have) ==
  IF frontier = << >> THEN << >>
  ELSE <<EdgeSrc(g, Head(frontier))>> \o NewSources_per_edge(g, Tail(frontier), have)

\* the sources of the frontier's edges that are not in `have`, in the order
\* they first occur
RECURSIVE NewSources(_, _, _)
NewSources(g, frontier, have) ==
  IF frontier = << >> THEN << >>
  ELSE LET u == EdgeSrc(g, Head(frontier))
       IN IF u \in have THEN NewSources(g, Tail(frontier), have)
          ELSE <<u>> \o NewSources(g, Tail(frontier), have \cup {u})

\* a block whose source nodes are the sources of the frontier's edges only
to_block_sources_only(g, frontier, nodes) ==
  [src |-> NewSources(g, frontier, {}),
   dst |-> nodes,
   edges |-> frontier]

\* dgl.to_block(frontier, seed_nodes): the destination nodes are the seed
\* nodes; the source nodes are the destination nodes first, then the other
\* sources of the frontier's edges
to_block(g, frontier, nodes) ==
  [src |-> nodes \o NewSources(g, frontier, SeqToSet(nodes)),
   dst |-> nodes,
   edges |-> frontier]

\* BlockSampler.sample_blocks(g, seed_nodes), layers n-1 down to 0: the block
\* of a layer is put in front of the blocks got so far and its source nodes
\* are the seed nodes of the next layer; as [blocks, gen]
RECURSIVE SampleLayers(_, _, _, _, _)
SampleLayers(fans, n, g, nodes, gen) ==
  IF n = 0 THEN {[blocks |-> << >>, gen |-> gen]}
  ELSE UNION { LET block == to_block(g, f.frontier, nodes)
               IN { [blocks |-> o.blocks \o <<block>>, gen |-> o.gen] :
                      o \in SampleLayers(fans, n - 1, g, block.src, f.gen) } :
               f \in sample_frontier(fans, n - 1, g, nodes, gen) }

\* a sampler that returns the blocks seed layer first
sample_blocks_seed_first(fans, g, nodes, gen) ==
  { [blocks |-> [i \in 1 .. Len(o.blocks) |-> o.blocks[Len(o.blocks) + 1 - i]],
     gen |-> o.gen] :
      o \in SampleLayers(fans, Len(fans), g, nodes, gen) }

sample_blocks(fans, g, nodes, gen) == SampleLayers(fans, Len(fans), g, nodes, gen)

\* the fan-out lists a sampler is built with, and the seed-node batches a
\* NodeDataLoader hands to it (distinct node ids)
FanoutValues == {TakeAll} \cup (0 .. MaxFanout)
FanoutLists == SeqsUpTo(FanoutValues, MaxLayers) \ {<< >>}
SeedBatches(g) ==
  {s \in SeqsUpTo(NodesOf(g), MaxSeeds) :
     s # << >> /\ \A i, j \in 1 .. Len(s) : i # j => s[i] # s[j]}

\* ------------------------------------------------- create_dataloader
\* a list of n distinct node ids
IdList(n) == [i \in 1 .. n |-> n - i]

\* a partition that gives the last rank the rest of the list as well
PartitionWithRest(rank, ws, ids) ==
  SubSeq(ids, ((Len(ids) \div ws) * rank) + 1,
         IF rank = ws - 1 THEN Len(ids) ELSE (Len(ids) \div ws) * (rank + 1))

\* a partition that deals the ids out in turn: ids[rank::world_size]
Partition_strided(rank, ws, ids) ==
  LET Mine(i) == (i % ws) = rank
  IN SelectSeq(ids, LAMBDA x : \E i \in 0 .. (Len(ids) - 1) : ids[i + 1] = x /\ Mine(i))

\* partition_size = len(ids) // world_size; partition_offset =
\* partition_size * rank; ids[partition_offset:partition_offset+partition_size]
Partition(rank, ws, ids) ==
  LET partition_size == Len(ids) \div ws
      partition_offset == partition_size * rank
  IN SubSeq(ids, partition_offset + 1, partition_offset + partition_size)

\* the part_nids of the heterogeneous create_dataloader: the partition of
\* every node type's ids (one node type: the homogeneous create_dataloader)
create_dataloader(rank, ws, ntype_nids) ==
  [ntype \in DOMAIN ntype_nids |-> Partition(rank, ws, ntype_nids[ntype])]

NodeTypes == {"paper", "author"}
NidsDicts == [NodeTypes -> {IdList(n) : n \in 0 .. MaxNids}]

\* ------------------------------------------------- positive edge split
\* np.random.permutation(np.arange(n)): any order of 0 .. n-1
Permutations(n) ==
  {p \in [1 .. n -> 0 .. (n - 1)] : \A i, j \in 1 .. n : i # j => p[i] # p[j]}

\* eids[:TestSize] and eids[TestSize:]; a slice stops at the end of the list
TestSlice(perm) == SubSeq(perm, 1, IF Len(perm) < TestSize THEN Len(perm) ELSE TestSize)
\* eids[TestSize-1:]: a training slice that starts one entry early
TrainSlice_early(perm) == SubSeq(perm, TestSize, Len(perm))
TrainSlice(perm) == SubSeq(perm, TestSize + 1, Len(perm))

\* ---------------------------------------------------------------- state
VARIABLES
  world_size,  \* create_dataloader: the number of ranks
  nids,        \* the node ids to partition, by node type
  part_nids,   \* rank -> the part_nids of its data loader, for the ranks that have one
  num_edges,   \* link prediction: g.number_of_edges()
  split,       \* "none" before the split, then "done"
  test_eids,   \* eids[:1000]
  train_eids,  \* eids[1000:]
  pc,            \* train(): rank -> where the worker process is
  epoch,         \* rank -> its epoch
  step,          \* rank -> the training steps of the epoch it has completed
  best_accuracy, \* rank -> the best_accuracy of its process, in 1 / AccLevels
  model_pt,      \* the file model.pt: << >>, or <<e>>, e the epoch whose parameters it holds
  accs,          \* the validation accuracies of the epochs validated so far
  joined,        \* the number of processes the parent has joined
  variant,       \* which train(): "homogeneous" (SAGE) or "heterogeneous" (RGCN)
  barriers,      \* rank -> the calls of torch.distributed.barrier() it has made
  writers,       \* the ranks that have called torch.save(..., 'model.pt')
  valid_forward  \* what the last validation forward pass called: "module", "wrapper"

partVars == <<world_size, nids, part_nids>>
splitVars == <<num_edges, split, test_eids, train_eids>>
trainVars == <<pc, epoch, step, best_accuracy, model_pt, accs, joined,
               variant, barriers, writers, valid_forward>>

VARIABLES
  session,     \* which pipeline runs: "neg" (EdgeDataLoader), "blk" (NodeDataLoader), ...
  graph,       \* the graph; read only
  k,           \* NegativeSampler.k
  weights,     \* NegativeSampler.weights
  torch_rng,   \* torch's generator, read by multinomial
  eids,        \* the batch of the last NegativeSampler call
  src_neg,     \* what the last call returned
  dst_neg,
  neg_status,  \* "none" before the first call, then "ok" or "error"
  neg_rng0,    \* the position of torch_rng at which the last call started
  fanouts,     \* MultiLayerNeighborSampler.fanouts
  dgl_rng,     \* DGL's generator, read by sample_neighbors
  seed_nodes,  \* the seed nodes of the last sample_blocks call
  blocks,      \* the blocks it returned
  blk_status,  \* "none" before the first call, then "ok"
  blk_rng0,    \* the position of dgl_rng at which the last call started
  repeated     \* the last call had the arguments and the generator state of the call before it

samplerVars == <<session, graph, k, weights, torch_rng, eids, src_neg, dst_neg,
                 neg_status, neg_rng0, fanouts, dgl_rng, seed_nodes, blocks,
                 blk_status, blk_rng0, repeated>>

VARIABLES
  neg_pairs,   \* link prediction: the pairs (neg_u[i], neg_v[i]) of np.where(adj_neg != 0)
  neg_eids,    \* np.random.choice(len(neg_u), 2000)
  test_neg,    \* the pairs (test_neg_u[i], test_neg_v[i])
  train_neg,   \* the pairs (train_neg_u[i], train_neg_v[i])
  lp_status    \* "none" before the cell has run, then "ok" or "error"

lpVars == <<neg_pairs, neg_eids, test_neg, train_neg, lp_status>>

VARIABLES
  mdl_kind,     \* the class of the model: "SAGE", "RGCN" or "SAGE_encoder"
  mdl_n_layers, \* the n_layers it is constructed with
  mdl_blocks,   \* the number of blocks forward is handed: the length of the fan-out list
  mdl_layers,   \* self.layers
  mdl_trace,    \* the iterations of the loop of forward, as [layer, block, relu]
  mdl_status    \* "none", "built" after __init__, "run" after forward

mdlVars == <<mdl_kind, mdl_n_layers, mdl_blocks, mdl_layers, mdl_trace, mdl_status>>

VARIABLES
  inf_layers,      \* inference(): len(model.layers)
  inf_batch_size,  \* its batch_size
  inf_pc,          \* "none"; "layer" at the head of the loop over the layers; "batch" in
                   \* the loop over the data loader; "done" after the return
  inf_l,           \* l, the index of the layer
  inf_b,           \* the batches of the data loader consumed in this pass
  input_features,  \* node -> the layers that produced its row (0: the features given)
  output_features, \* node -> [layer, writes]: the layers that produced its row (-1: the
                   \* zeros of the allocation) and the assignments to it in this pass
  inf_read,        \* what the last batch read: the layers that produced the rows of x
  inf_result       \* the buffer returned

infVars == <<inf_layers, inf_batch_size, inf_pc, inf_l, inf_b, input_features,
             output_features, inf_read, inf_result>>

restVars == <<lpVars, mdlVars, infVars>>

vars == <<samplerVars, partVars, splitVars, trainVars, restVars>>

negVars == <<k, weights, torch_rng, eids, src_neg, dst_neg, neg_status, neg_rng0>>
blkVars == <<fanouts, dgl_rng, seed_nodes, blocks, blk_status, blk_rng0>>

\* the k a NegativeSampler is built with; __init__ takes any integer
KValues == -1 .. MaxK

\* after NegativeSampler(graph, k) / MultiLayerNeighborSampler(fanouts)
InitNeg ==
  /\ session = "neg"
  /\ graph \in NegGraphs
  /\ \E kk \in KValues :
       LET sampler == NegativeSampler_init(graph, kk)
       IN /\ sampler.status = "ok"
          /\ k = sampler.k
          /\ weights = sampler.weights
  /\ fanouts = << >>

InitBlk ==
  /\ session = "blk"
  /\ graph \in BlkGraphs
  /\ fanouts \in FanoutLists
  /\ k = 0
  /\ weights = << >>

InitCommon ==
  /\ torch_rng \in {Unseeded, Seeded}
  /\ eids = << >>
  /\ src_neg = << >>
  /\ dst_neg = << >>
  /\ neg_status = "none"
  /\ neg_rng0 = 0
  /\ dgl_rng = torch_rng
  /\ seed_nodes = << >>
  /\ blocks = << >>
  /\ blk_status = "none"
  /\ blk_rng0 = 0
  /\ repeated = FALSE

\* no data loader created, no edge split, no worker process
InitNoLoader ==
  /\ world_size = 1
  /\ nids = [ntype \in NodeTypes |-> << >>]
  /\ part_nids = << >>

InitNoSplit ==
  /\ num_edges = 0
  /\ split = "none"
  /\ test_eids = << >>
  /\ train_eids = << >>

InitNoTrain ==
  /\ pc = [rank \in 0 .. 0 |-> "idle"]
  /\ epoch = [rank \in 0 .. 0 |-> 0]
  /\ step = [rank \in 0 .. 0 |-> 0]
  /\ best_accuracy = [rank \in 0 .. 0 |-> 0]
  /\ model_pt = << >>
  /\ accs = << >>
  /\ joined = 0
  /\ variant = "homogeneous"
  /\ barriers = [rank \in 0 .. 0 |-> 0]
  /\ writers = {}
  /\ valid_forward = "none"

InitNoLp ==
  /\ neg_pairs = << >>
  /\ neg_eids = << >>
  /\ test_neg = << >>
  /\ train_neg = << >>
  /\ lp_status = "none"

InitNoModel ==
  /\ mdl_kind = "SAGE"
  /\ mdl_n_layers = 1
  /\ mdl_blocks = 1
  /\ mdl_layers = << >>
  /\ mdl_trace = << >>
  /\ mdl_status = "none"

InitNoInference ==
  /\ inf_layers = 1
  /\ inf_batch_size = 1
  /\ inf_pc = "none"
  /\ inf_l = 0
  /\ inf_b = 0
  /\ input_features = << >>
  /\ output_features = << >>
  /\ inf_read = {}
  /\ inf_result = << >>

InitNoRest == InitNoLp /\ InitNoModel /\ InitNoInference

Init ==
  /\ (InitNeg \/ InitBlk) /\ InitCommon
  /\ InitNoLoader /\ InitNoSplit /\ InitNoTrain /\ InitNoRest

\* a call that computes the weights again, without the power
NegCall_reweighting(ids) ==
  /\ session = "neg"
  /\ \E o \in NegativeSampler_call(graph, k, weights, ids, torch_rng) :
       /\ eids' = ids
       /\ src_neg' = o.src
       /\ dst_neg' = o.dst
       /\ neg_status' = o.status
       /\ neg_rng0' = torch_rng.pos
       /\ torch_rng' = o.gen
  /\ repeated' = (torch_rng.seeded /\ neg_status = "ok" /\ torch_rng.pos = neg_rng0 /\ ids = eids)
  /\ weights' = in_degrees(graph)
  /\ UNCHANGED <<session, graph, k>>
  /\ UNCHANGED <<blkVars, partVars, splitVars, trainVars, restVars>>

\* one call negative_sampler(graph, ids) made by the EdgeDataLoader
NegCall(ids) ==
  /\ session = "neg"
  /\ \E o \in NegativeSampler_call(graph, k, weights, ids, torch_rng) :
       /\ eids' = ids
       /\ src_neg' = o.src
       /\ dst_neg' = o.dst
       /\ neg_status' = o.status
       /\ neg_rng0' = torch_rng.pos
       /\ torch_rng' = o.gen
  /\ repeated' = (torch_rng.seeded /\ neg_status = "ok" /\ torch_rng.pos = neg_rng0 /\ ids = eids)
  /\ UNCHANGED <<session, graph, k, weights>>
  /\ UNCHANGED <<blkVars, partVars, splitVars, trainVars, restVars>>

\* torch.manual_seed(s), s the seed in use: the same stream from its start
TorchSeedSame ==
  /\ session = "neg"
  /\ torch_rng.pos > 0
  /\ torch_rng' = Rewind(torch_rng)
  /\ UNCHANGED <<session, graph, k, weights, eids, src_neg, dst_neg, neg_status, neg_rng0>>
  /\ UNCHANGED <<blkVars, repeated, partVars, splitVars, trainVars, restVars>>

\* one call sampler.sample_blocks(graph, nodes) made by a data loader
SampleBlocks(nodes) ==
  /\ session = "blk"
  /\ \E o \in sample_blocks(fanouts, graph, nodes, dgl_rng) :
       /\ seed_nodes' = nodes
       /\ blocks' = o.blocks
       /\ blk_status' = "ok"
       /\ blk_rng0' = dgl_rng.pos
       /\ dgl_rng' = o.gen
  /\ repeated' = (dgl_rng.seeded /\ blk_status = "ok" /\ dgl_rng.pos = blk_rng0 /\ nodes = seed_nodes)
  /\ UNCHANGED <<session, graph, fanouts>>
  /\ UNCHANGED <<k, weights, torch_rng, eids, src_neg, dst_neg, neg_status, neg_rng0>>
  /\ UNCHANGED <<partVars, splitVars, trainVars, restVars>>

\* dgl.random.seed(s), s the seed in use: the same stream from its start
DglSeedSame ==
  /\ session = "blk"
  /\ dgl_rng.pos > 0
  /\ dgl_rng' = Rewind(dgl_rng)
  /\ UNCHANGED <<session, graph, fanouts, seed_nodes, blocks, blk_status, blk_rng0>>
  /\ UNCHANGED <<negVars, repeated, partVars, splitVars, trainVars, restVars>>

NegCallAny == \E ids \in Batches(graph) : NegCall(ids)
SampleBlocksAny == \E nodes \in SeedBatches(graph) : SampleBlocks(nodes)

Next ==
  \/ NegCallAny
  \/ TorchSeedSame
  \/ SampleBlocksAny
  \/ DglSeedSame

Spec == Init /\ [][Next]_vars

\* the link-prediction pipeline and the node pipelines as the notebooks run
\* them: no generator is ever seeded
InitNegUnseeded ==
  /\ InitNeg /\ InitCommon /\ ~torch_rng.seeded
  /\ InitNoLoader /\ InitNoSplit /\ InitNoTrain /\ InitNoRest
NextNeg == NegCallAny
SpecNeg == InitNegUnseeded /\ [][NextNeg]_vars

InitBlkUnseeded ==
  /\ InitBlk /\ InitCommon /\ ~dgl_rng.seeded
  /\ InitNoLoader /\ InitNoSplit /\ InitNoTrain /\ InitNoRest
NextBlk == SampleBlocksAny
SpecBlk == InitBlkUnseeded /\ [][NextBlk]_vars

\* ----------------------------------------- data loaders and edge split
\* no sampler under observation
InitNoSampler ==
  /\ graph = EmptyGraph
  /\ k = 0
  /\ weights = << >>
  /\ fanouts = << >>
  /\ InitCommon
  /\ ~torch_rng.seeded

\* before the ranks call create_dataloader(rank, world_size, graph, nids)
InitPart ==
  /\ session = "part"
  /\ world_size \in 1 .. MaxWorld
  /\ nids \in NidsDicts
  /\ part_nids = << >>
  /\ InitNoSampler /\ InitNoSplit /\ InitNoTrain /\ InitNoRest

\* create_dataloader(rank, world_size, graph, nids): the node ids the data
\* loader of the rank is built on
CreateDataloader(rank) ==
  /\ session = "part"
  /\ part_nids' = [r \in DOMAIN part_nids \cup {rank} |->
                      IF r = rank THEN create_dataloader(rank, world_size, nids)
                      ELSE part_nids[r]]
  /\ UNCHANGED <<world_size, nids>>
  /\ UNCHANGED <<samplerVars, splitVars, trainVars, restVars>>

CreateDataloaderAny == \E rank \in 0 .. (world_size - 1) : CreateDataloader(rank)

NextPart == CreateDataloaderAny
SpecPart == InitPart /\ [][NextPart]_vars

\* before the positive edges are split
InitSplit ==
  /\ session = "split"
  /\ num_edges \in 0 .. MaxEdges
  /\ split = "none"
  /\ test_eids = << >>
  /\ train_eids = << >>
  /\ InitNoSampler /\ InitNoLoader /\ InitNoTrain /\ InitNoRest

\* eids = np.random.permutation(np.arange(g.number_of_edges())); the test
\* edges are eids[:1000], the training edges eids[1000:]
SplitEdges ==
  /\ session = "split"
  /\ split = "none"
  /\ \E perm \in Permutations(num_edges) :
       /\ test_eids' = TestSlice(perm)
       /\ train_eids' = TrainSlice(perm)
  /\ split' = "done"
  /\ UNCHANGED num_edges
  /\ UNCHANGED <<samplerVars, partVars, trainVars, restVars>>

NextSplit == SplitEdges
SpecSplit == InitSplit /\ [][NextSplit]_vars

\* ------------------------------------- negative links (link prediction)
LpGraphs == {TriangleGraph, ParallelGraph, SelfLoopGraph, CycleGraph, LoopGraph,
             IsolatedGraph}

\* sp.coo_matrix((np.ones(len(u)), (u, v))) without a shape: the shape is one
\* more than the largest row index and the largest column index
AdjRows(g) == 1 + (CHOOSE m \in {EdgeSrc(g, e) : e \in EdgeIds(g)} :
                     \A e \in EdgeIds(g) : EdgeSrc(g, e) <= m)
AdjCols(g) == 1 + (CHOOSE m \in {EdgeDst(g, e) : e \in EdgeIds(g)} :
                     \A e \in EdgeIds(g) : EdgeDst(g, e) <= m)

\* adj.todense(): the entries of a coordinate matrix at the same position are
\* summed
AdjEntry(g, i, j) ==
  Cardinality({e \in EdgeIds(g) : EdgeSrc(g, e) = i /\ EdgeDst(g, e) = j})

\* 1 - adj.todense() - np.eye(adj.shape[0]): numpy broadcasts the two
\* matrices when they have the same number of columns or one of them has a
\* single column, and raises otherwise
Broadcastable(g) ==
  AdjCols(g) = AdjRows(g) \/ AdjCols(g) = 1 \/ AdjRows(g) = 1

NegCols(g) == IF AdjRows(g) = 1 THEN AdjCols(g) ELSE AdjRows(g)

Eye(g, i, j) == IF AdjRows(g) = 1 \/ i = j THEN 1 ELSE 0

adj_neg(g, i, j) ==
  1 - AdjEntry(g, i, IF AdjCols(g) = 1 THEN 0 ELSE j) - Eye(g, i, j)

\* neg_u, neg_v = np.where(adj_neg != 0): the positions of the non-zero
\* entries, row by row; as [status, pairs]
negative_edges(g) ==
  IF Len(g.edges) = 0 \/ ~Broadcastable(g) THEN [status |-> "error", pairs |-> << >>]
  ELSE LET cols == NegCols(g)
           cells == [c \in 1 .. (AdjRows(g) * cols) |->
                       <<(c - 1) \div cols, (c - 1) % cols>>]
           NonZero(cell) == adj_neg(g, cell[1], cell[2]) # 0
       IN [status |-> "ok", pairs |-> SelectSeq(cells, NonZero)]

\* np.random.choice(n, 2000): 2000 indices below n, each drawn from all of
\* them (replace=True is the default); raises when n is 0
choice(n) == [1 .. NegSamples -> 0 .. (n - 1)]

\* neg_u[neg_eids[:500]], neg_v[neg_eids[:500]] and
\* neg_u[neg_eids[500:]], neg_v[neg_eids[500:]]
TestNeg(pairs, ids) == [i \in 1 .. NegTestSize |-> pairs[ids[i] + 1]]
TrainNeg(pairs, ids) ==
  [i \in 1 .. (Len(ids) - NegTestSize) |-> pairs[ids[NegTestSize + i] + 1]]

\* before the cell "Find all negative edges and split them" runs
InitLp ==
  /\ session = "lp"
  /\ graph \in LpGraphs
  /\ k = 0
  /\ weights = << >>
  /\ fanouts = << >>
  /\ InitCommon
  /\ ~torch_rng.seeded
  /\ InitNoLoader /\ InitNoSplit /\ InitNoTrain /\ InitNoRest

\* nothing of the link-prediction tutorial has run
InitNoLpSession ==
  /\ graph = EmptyGraph
  /\ k = 0
  /\ weights = << >>
  /\ fanouts = << >>
  /\ InitCommon
  /\ ~torch_rng.seeded
  /\ InitNoLoader /\ InitNoSplit /\ InitNoTrain /\ InitNoLp

\* the cell: the enumeration of the missing edges, the random choice and the
\* two slices
SplitNegatives ==
  /\ session = "lp"
  /\ lp_status = "none"
  /\ LET neg == negative_edges(graph)
     IN IF neg.status = "error" \/ Len(neg.pairs) = 0
        THEN /\ lp_status' = "error"
             /\ neg_pairs' = neg.pairs
             /\ UNCHANGED <<neg_eids, test_neg, train_neg>>
        ELSE /\ lp_status' = "ok"
             /\ neg_pairs' = neg.pairs
             /\ \E ids \in choice(Len(neg.pairs)) :
                  /\ neg_eids' = ids
                  /\ test_neg' = TestNeg(neg.pairs, ids)
                  /\ train_neg' = TrainNeg(neg.pairs, ids)
  /\ UNCHANGED <<samplerVars, partVars, splitVars, trainVars, mdlVars, infVars>>

NextLp == SplitNegatives
SpecLp == InitLp /\ [][NextLp]_vars

\* ------------------------------------------------------- the models
\* SAGE(in_feats, n_hidden, n_classes, n_layers) of the node classification
\* notebooks: self.layers after __init__, every layer as <<input, output>>
SAGE_init(n_layers) ==
  << <<"in_feats", "n_hidden">> >>
    \o [i \in 1 .. (n_layers - 2) |-> <<"n_hidden", "n_hidden">>]
    \o << <<"n_hidden", "n_classes">> >>

\* RGCN(in_feats, n_hidden, n_classes, n_layers, rel_names): the same three
\* steps, with HeteroGraphConv layers
RGCN_init(n_layers) ==
  << <<"in_feats", "n_hidden">> >>
    \o [i \in 1 .. (n_layers - 2) |-> <<"n_hidden", "n_hidden">>]
    \o << <<"n_hidden", "n_classes">> >>

\* SAGE(in_feats, n_hidden, n_layers) of the link-prediction notebook
SAGE_encoder_init(n_layers) ==
  << <<"in_feats", "n_hidden">> >>
    \o [i \in 1 .. (n_layers - 1) |-> <<"n_hidden", "n_hidden">>]

ModelKinds == {"SAGE", "RGCN", "SAGE_encoder"}

model_init(kind, n_layers) ==
  IF kind = "SAGE" THEN SAGE_init(n_layers)
  ELSE IF kind = "RGCN" THEN RGCN_init(n_layers)
  ELSE SAGE_encoder_init(n_layers)

\* forward(bipartites, x): for l, (layer, bipartite) in enumerate(zip(
\* self.layers, bipartites)) stops at the shorter of the two; ReLU follows
\* unless l = self.n_layers - 1
forward(layers, n_layers, bipartites) ==
  [i \in 1 .. (IF Len(layers) < bipartites THEN Len(layers) ELSE bipartites) |->
     [layer |-> i - 1, block |-> i - 1, relu |-> (i - 1 # n_layers - 1)]]

\* the pipelines the notebooks configure: the model and the fan-out list of
\* its sampler
Pipelines ==
  { [kind |-> "SAGE", n_layers |-> 3, fanouts |-> <<4, 4, 4>>],
    [kind |-> "RGCN", n_layers |-> 2, fanouts |-> <<15, 15>>],
    [kind |-> "SAGE_encoder", n_layers |-> 3, fanouts |-> <<4, 4, 4>>] }

\* before a model is constructed; its sampler has some number of fan-outs
InitModel ==
  /\ session = "model"
  /\ mdl_kind \in ModelKinds
  /\ mdl_n_layers \in 1 .. MaxModelLayers
  /\ mdl_blocks \in 1 .. MaxModelLayers
  /\ mdl_layers = << >>
  /\ mdl_trace = << >>
  /\ mdl_status = "none"
  /\ InitNoLpSession /\ InitNoInference

\* model = SAGE(...) / RGCN(...)
Construct ==
  /\ session = "model"
  /\ mdl_status = "none"
  /\ mdl_layers' = model_init(mdl_kind, mdl_n_layers)
  /\ mdl_status' = "built"
  /\ UNCHANGED <<mdl_kind, mdl_n_layers, mdl_blocks, mdl_trace>>
  /\ UNCHANGED <<samplerVars, partVars, splitVars, trainVars, lpVars, infVars>>

\* model(bipartites, inputs) on the blocks of one mini-batch
Forward ==
  /\ session = "model"
  /\ mdl_status = "built"
  /\ mdl_trace' = forward(mdl_layers, mdl_n_layers, mdl_blocks)
  /\ mdl_status' = "run"
  /\ UNCHANGED <<mdl_kind, mdl_n_layers, mdl_blocks, mdl_layers>>
  /\ UNCHANGED <<samplerVars, partVars, splitVars, trainVars, lpVars, infVars>>

NextModel == Construct \/ Forward
SpecModel == InitModel /\ [][NextModel]_vars

\* -------------------------------------------------------- inference()
\* the batches of NodeDataLoader(graph, torch.arange(graph.number_of_nodes()),
\* sampler, batch_size, shuffle=False, drop_last=False): batch b, counted
\* from 0, is nodes[b * batch_size : (b + 1) * batch_size]
NumInferenceBatches(n, bs) == (n + bs - 1) \div bs

InferenceBatch(n, bs, b) ==
  [i \in 1 .. ((IF (b + 1) * bs < n THEN (b + 1) * bs ELSE n) - b * bs) |-> b * bs + i - 1]

\* a layer computed in place: a row already written in this pass is read
\* from the buffer being written
ReadFeatures_in_place(inp, out, input_nodes) ==
  {IF out[v].writes > 0 THEN out[v].layer ELSE inp[v] : v \in SeqToSet(input_nodes)}

\* x = input_features[input_nodes]: the layers that produced the rows read
ReadFeatures(inp, out, input_nodes) == {inp[v] : v \in SeqToSet(input_nodes)}

\* inference(model, graph, input_features, batch_size) has been called: the
\* nodes, the sampler MultiLayerNeighborSampler([None]) and the data loader
\* are set up
InitInference ==
  /\ session = "inf"
  /\ graph \in BlkGraphs
  /\ fanouts = <<TakeAll>>
  /\ k = 0
  /\ weights = << >>
  /\ InitCommon
  /\ ~dgl_rng.seeded
  /\ InitNoLoader /\ InitNoSplit /\ InitNoTrain /\ InitNoLp /\ InitNoModel
  /\ inf_layers \in 1 .. MaxLayers
  /\ inf_batch_size \in 1 .. MaxSeeds
  /\ inf_pc = "layer"
  /\ inf_l = 0
  /\ inf_b = 0
  /\ input_features = [v \in NodesOf(graph) |-> 0]
  /\ output_features = << >>
  /\ inf_read = {}
  /\ inf_result = << >>

\* the head of for l, layer in enumerate(model.layers): the allocation of
\* output_features for the next layer
BeginLayer ==
  /\ session = "inf"
  /\ inf_pc = "layer"
  /\ inf_l < inf_layers
  /\ output_features' = [v \in NodesOf(graph) |-> [layer |-> -1, writes |-> 0]]
  /\ inf_b' = 0
  /\ inf_read' = {}
  /\ inf_pc' = "batch"
  /\ UNCHANGED <<inf_layers, inf_batch_size, inf_l, input_features, inf_result>>
  /\ UNCHANGED <<samplerVars, partVars, splitVars, trainVars, lpVars, mdlVars>>

\* one batch of the data loader: the block of the output nodes with all
\* their neighbours, x = layer(bipartite, input_features[input_nodes]),
\* output_features[output_nodes] = x
InferBatch ==
  /\ session = "inf"
  /\ inf_pc = "batch"
  /\ inf_b < NumInferenceBatches(graph.num_nodes, inf_batch_size)
  /\ LET output_nodes == InferenceBatch(graph.num_nodes, inf_batch_size, inf_b)
     IN \E o \in sample_blocks(fanouts, graph, output_nodes, dgl_rng) :
          LET bipartite == o.blocks[1]
              input_nodes == bipartite.src
          IN /\ inf_read' = ReadFeatures(input_features, output_features, input_nodes)
             /\ output_features' =
                  [v \in DOMAIN output_features |->
                     IF v \in SeqToSet(bipartite.dst)
                     THEN [layer |-> inf_l + 1, writes |-> output_features[v].writes + 1]
                     ELSE output_features[v]]
  /\ inf_b' = inf_b + 1
  /\ UNCHANGED <<inf_layers, inf_batch_size, inf_pc, inf_l, input_features, inf_result>>
  /\ UNCHANGED <<samplerVars, partVars, splitVars, trainVars, lpVars, mdlVars>>

\* the data loader is exhausted: input_features = output_features
EndPass ==
  /\ session = "inf"
  /\ inf_pc = "batch"
  /\ inf_b = NumInferenceBatches(graph.num_nodes, inf_batch_size)
  /\ input_features' = [v \in DOMAIN output_features |-> output_features[v].layer]
  /\ inf_l' = inf_l + 1
  /\ inf_pc' = "layer"
  /\ UNCHANGED <<inf_layers, inf_batch_size, inf_b, output_features, inf_read, inf_result>>
  /\ UNCHANGED <<samplerVars, partVars, splitVars, trainVars, lpVars, mdlVars>>

\* model.layers is exhausted: return output_features
ReturnFeatures ==
  /\ session = "inf"
  /\ inf_pc = "layer"
  /\ inf_l = inf_layers
  /\ inf_result' = output_features
  /\ inf_pc' = "done"
  /\ UNCHANGED <<inf_layers, inf_batch_size, inf_l, inf_b, input_features,
                 output_features, inf_read>>
  /\ UNCHANGED <<samplerVars, partVars, splitVars, trainVars, lpVars, mdlVars>>

NextInference == BeginLayer \/ InferBatch \/ EndPass \/ ReturnFeatures
SpecInference == InitInference /\ [][NextInference]_vars

\* ------------------------------------------------------------ train()
Ranks == 0 .. (world_size - 1)

\* the train() of the homogeneous notebook and the train() of the
\* heterogeneous ones
Variants == {"homogeneous", "heterogeneous"}

\* len(train_dataloader): the batches of a NodeDataLoader with drop_last=False
NumSeeds(part) == Len(part["paper"]) + Len(part["author"])
NumBatches(part) == (NumSeeds(part) + BatchSize - 1) \div BatchSize

\* a collective that returns as soon as one rank has called it
SomeArrived(at) == \E r \in Ranks : pc[r] = at

\* a collective operation of the process group (torch.distributed.barrier(),
\* the gradient all-reduce of loss.backward()) returns once every rank of the
\* group has called it
AllArrived(at) == \A r \in Ranks : pc[r] = at

\* the processes of mp.Process(target=train, args=(proc_id, 4, data)), all
\* started, none joined; train_nids some list of node ids
InitTrain ==
  /\ session = "train"
  /\ graph = DiamondGraph
  /\ k = 0
  /\ weights = << >>
  /\ fanouts = << >>
  /\ InitCommon
  /\ ~torch_rng.seeded
  /\ world_size = NumWorkers
  /\ \E n \in 0 .. MaxNids : nids = [ntype \in NodeTypes |->
                                       IF ntype = "paper" THEN IdList(n) ELSE << >>]
  /\ part_nids = << >>
  /\ pc = [rank \in 0 .. (NumWorkers - 1) |-> "start"]
  /\ epoch = [rank \in 0 .. (NumWorkers - 1) |-> 0]
  /\ step = [rank \in 0 .. (NumWorkers - 1) |-> 0]
  /\ best_accuracy = [rank \in 0 .. (NumWorkers - 1) |-> 0]
  /\ model_pt = << >>
  /\ accs = << >>
  /\ joined = 0
  /\ variant \in Variants
  /\ barriers = [rank \in 0 .. (NumWorkers - 1) |-> 0]
  /\ writers = {}
  /\ valid_forward = "none"
  /\ InitNoSplit /\ InitNoRest

\* train() up to its first barrier: init_process_group, the data loaders,
\* the model, the optimizer
Setup(rank) ==
  /\ session = "train"
  /\ pc[rank] = "start"
  /\ part_nids' = [r \in DOMAIN part_nids \cup {rank} |->
                      IF r = rank THEN create_dataloader(rank, world_size, nids)
                      ELSE part_nids[r]]
  /\ pc' = [pc EXCEPT ![rank] = "barrier0"]
  /\ barriers' = [barriers EXCEPT ![rank] = @ + 1]
  /\ UNCHANGED <<world_size, nids, epoch, step, best_accuracy, model_pt, accs, joined>>
  /\ UNCHANGED <<variant, writers, valid_forward>>
  /\ UNCHANGED <<samplerVars, splitVars, restVars>>

\* one iteration of the loop over train_dataloader, up to loss.backward():
\* the gradients are averaged over the ranks there
BeginStep(rank) ==
  /\ session = "train"
  /\ pc[rank] = "train"
  /\ step[rank] < NumBatches(part_nids[rank])
  /\ pc' = [pc EXCEPT ![rank] = "allreduce"]
  /\ UNCHANGED <<epoch, step, best_accuracy, model_pt, accs, joined>>
  /\ UNCHANGED <<variant, barriers, writers, valid_forward>>
  /\ UNCHANGED <<samplerVars, partVars, splitVars, restVars>>

\* train_dataloader is exhausted: the barrier after the training steps
EndTraining(rank) ==
  /\ session = "train"
  /\ pc[rank] = "train"
  /\ step[rank] = NumBatches(part_nids[rank])
  /\ pc' = [pc EXCEPT ![rank] = "barrier1"]
  /\ barriers' = [barriers EXCEPT ![rank] = @ + 1]
  /\ UNCHANGED <<epoch, step, best_accuracy, model_pt, accs, joined>>
  /\ UNCHANGED <<variant, writers, valid_forward>>
  /\ UNCHANGED <<samplerVars, partVars, splitVars, restVars>>
\* a train() whose last barrier is inside "if rank == 0": the other ranks
\* go on to the next epoch
AfterCollective_skip_barrier(at, rank) ==
  IF at = "barrier0" \/ at = "allreduce" THEN "train"
  ELSE IF at = "barrier1" /\ rank = 0 THEN "valid"
  ELSE IF epoch[rank] + 1 = NumEpochs THEN "done" ELSE "train"

\* a train() without "if rank == 0": every rank validates and saves
AfterCollective_all_validate(at, rank) ==
  IF at = "barrier0" \/ at = "allreduce" THEN "train"
  ELSE IF at = "barrier1" THEN "valid"
  ELSE IF epoch[rank] + 1 = NumEpochs THEN "done" ELSE "train"

\* where a rank goes on when the collective it waits in returns
AfterCollective(at, rank) ==
  IF at = "barrier0" \/ at = "allreduce" THEN "train"
  ELSE IF at = "barrier1" THEN (IF rank = 0 THEN "valid" ELSE "barrier2")
  ELSE IF epoch[rank] + 1 = NumEpochs THEN "done" ELSE "train"

\* a collective returns in the ranks that wait in it: the barrier before the
\* first epoch; the all-reduce, after which opt.step() ends the training
\* step; the barrier after the training steps, after which rank 0 validates
\* and the others go to the barrier that ends the epoch; that barrier
Release(at) ==
  /\ session = "train"
  /\ AllArrived(at)
  /\ \E r \in Ranks : pc[r] = at
  /\ pc' = [r \in DOMAIN pc |-> IF pc[r] = at THEN AfterCollective(at, r) ELSE pc[r]]
  /\ step' = [r \in DOMAIN step |->
                IF pc[r] # at THEN step[r]
                ELSE IF at = "allreduce" THEN step[r] + 1
                ELSE IF at = "barrier2" THEN 0
                ELSE step[r]]
  /\ epoch' = [r \in DOMAIN epoch |->
                 IF pc[r] = at /\ at = "barrier2" THEN epoch[r] + 1 ELSE epoch[r]]
  /\ barriers' = [r \in DOMAIN barriers |->
                    IF pc[r] = at /\ AfterCollective(at, r) = "barrier2"
                    THEN barriers[r] + 1 ELSE barriers[r]]
  /\ UNCHANGED <<best_accuracy, model_pt, accs, joined>>
  /\ UNCHANGED <<variant, writers, valid_forward>>
  /\ UNCHANGED <<samplerVars, partVars, splitVars, restVars>>

\* the forward pass of the validation loop: model.module(bipartites, inputs)
\* in the homogeneous train(), model(bipartites, inputs), the
\* DistributedDataParallel wrapper, in the heterogeneous one
ValidationCallee(v) == IF v = "homogeneous" THEN "module" ELSE "wrapper"

\* a model with a batch normalisation layer: running mean and variance
ModuleBuffers_batchnorm(v) == 2

\* the buffers of the wrapped module: SAGE is made of SAGEConv layers and
\* RGCN of HeteroGraphConv over GraphConv; they register parameters only
ModuleBuffers(v) == 0

\* the wrapper's forward starts with a broadcast of the module's buffers
\* from rank 0 when the module has any; the module's own forward is local
ForwardIsCollective(callee, v) == callee = "wrapper" /\ ModuleBuffers(v) > 0

\* the code after the barrier that follows the training steps, in a rank
\* that passed "if rank == 0": the validation forward passes, the accuracy
\* of the epoch, and
\* if best_accuracy < accuracy: best_accuracy = accuracy; torch.save(...)
\* A forward pass that is a collective blocks: no other rank joins it
Validate(rank, accuracy) ==
  /\ session = "train"
  /\ pc[rank] = "valid"
  /\ valid_forward' = ValidationCallee(variant)
  /\ IF ForwardIsCollective(ValidationCallee(variant), variant)
     THEN /\ pc' = [pc EXCEPT ![rank] = "bcast"]
          /\ UNCHANGED <<accs, best_accuracy, model_pt, writers, barriers>>
     ELSE /\ accs' = Append(accs, accuracy)
          /\ IF best_accuracy[rank] < accuracy
             THEN /\ best_accuracy' = [best_accuracy EXCEPT ![rank] = accuracy]
                  /\ model_pt' = <<epoch[rank]>>
                  /\ writers' = writers \cup {rank}
             ELSE UNCHANGED <<best_accuracy, model_pt, writers>>
          /\ pc' = [pc EXCEPT ![rank] = "barrier2"]
          /\ barriers' = [barriers EXCEPT ![rank] = @ + 1]
  /\ UNCHANGED <<epoch, step, joined, variant>>
  /\ UNCHANGED <<samplerVars, partVars, splitVars, restVars>>

\* a worker process raises and exits; one failure is followed
Fail(rank) ==
  /\ session = "train"
  /\ pc[rank] \notin {"done", "failed"}
  /\ \A r \in Ranks : pc[r] # "failed"
  /\ pc' = [pc EXCEPT ![rank] = "failed"]
  /\ UNCHANGED <<epoch, step, best_accuracy, model_pt, accs, joined>>
  /\ UNCHANGED <<variant, barriers, writers, valid_forward>>
  /\ UNCHANGED <<samplerVars, partVars, splitVars, restVars>>

\* for p in procs: p.join() returns when the process has exited
Join ==
  /\ session = "train"
  /\ joined < world_size
  /\ pc[joined] \in {"done", "failed"}
  /\ joined' = joined + 1
  /\ UNCHANGED <<pc, epoch, step, best_accuracy, model_pt, accs>>
  /\ UNCHANGED <<variant, barriers, writers, valid_forward>>
  /\ UNCHANGED <<samplerVars, partVars, splitVars, restVars>>

SetupAny == \E rank \in Ranks : Setup(rank)
BeginStepAny == \E rank \in Ranks : BeginStep(rank)
EndTrainingAny == \E rank \in Ranks : EndTraining(rank)
ReleaseAny == \E at \in {"barrier0", "allreduce", "barrier1", "barrier2"} : Release(at)
ValidateAny == \E rank \in Ranks, accuracy \in 0 .. AccLevels : Validate(rank, accuracy)
FailAny == \E rank \in Ranks : Fail(rank)

NextTrain ==
  \/ SetupAny
  \/ BeginStepAny
  \/ EndTrainingAny
  \/ ReleaseAny
  \/ ValidateAny
  \/ FailAny
  \/ Join

SpecTrain == InitTrain /\ [][NextTrain]_vars

\* the training when no process fails; every process that can take a step
\* is scheduled sooner or later
NextTrainNoFail ==
  \/ SetupAny
  \/ BeginStepAny
  \/ EndTrainingAny
  \/ ReleaseAny
  \/ ValidateAny
  \/ Join

SpecTrainLive == InitTrain /\ [][NextTrainNoFail]_vars /\ WF_vars(NextTrainNoFail)

\* the negative sampler next to the worker processes
InitFrame == InitNegUnseeded \/ InitTrain
NextFrame == NegCallAny \/ NextTrain
SpecFrame == InitFrame /\ [][NextFrame]_vars

\* ---------------------------------------------------------------- claims
PositiveNodes(g) == {v \in NodesOf(g) : in_degrees(g)[v] > 0}
IsEdge(g, u, v) == \E e \in EdgeIds(g) : EdgeSrc(g, e) = u /\ EdgeDst(g, e) = v

\* C1: a call of the negative sampler with k >= 1 and a non-empty batch
\* returns; src_neg and dst_neg both have len(eids) * k entries, and the k
\* entries of src_neg that belong to batch position i all are the source of
\* the i-th positive edge of the batch.
C1_NegShape ==
  (neg_status # "none" /\ k >= 1 /\ eids # << >>) =>
    /\ neg_status = "ok"
    /\ Len(src_neg) = Len(eids) * k
    /\ Len(dst_neg) = Len(eids) * k
    /\ \A i \in 1 .. Len(eids) : \A j \in 1 .. k :
         src_neg[(i - 1) * k + j] = EdgeSrc(graph, eids[i])

\* a batch of two different edges with different sources, and k = 2
C1_Witness ==
  /\ neg_status = "ok"
  /\ k = 2
  /\ Len(eids) = 2
  /\ EdgeSrc(graph, eids[1]) # EdgeSrc(graph, eids[2])
  /\ Len(src_neg) = 4

\* C2: every entry of dst_neg is a node with positive in-degree, and the
\* results the call can return are exactly the sequences of len(eids) * k
\* nodes of positive in-degree: any such node at any position, whatever the
\* sources and whatever the other positions hold.
C2_NegSupport ==
  neg_status = "ok" =>
    /\ \A i \in 1 .. Len(dst_neg) : dst_neg[i] \in PositiveNodes(graph)
    /\ \A o \in NegativeSampler_call(graph, k, weights, eids, torch_rng) :
         o.status = "ok" /\ o.src = src_neg
    /\ {o.dst : o \in NegativeSampler_call(graph, k, weights, eids, torch_rng)}
         = {d \in [1 .. (Len(eids) * k) -> NodesOf(graph)] :
              \A i \in 1 .. (Len(eids) * k) : d[i] \in PositiveNodes(graph)}

\* a graph with a node of in-degree zero and two of positive in-degree; one
\* node drawn twice in one call, another node drawn as well
C2_Witness ==
  /\ neg_status = "ok"
  /\ PositiveNodes(graph) # NodesOf(graph)
  /\ Len(dst_neg) = 4
  /\ dst_neg[1] = dst_neg[2]
  /\ dst_neg[3] # dst_neg[1]

EdgesInto(block, v) ==
  {i \in 1 .. Len(block.edges) : EdgeDst(graph, block.edges[i]) = v}

\* the source nodes of the block's edges
EdgeSources(block) ==
  {EdgeSrc(graph, block.edges[i]) : i \in 1 .. Len(block.edges)}

\* C4: a call of the block builder with a fan-out list of length L returns L
\* blocks; the destination set of the last block is the seed-node set, no
\* seed missing and no node added; and of two consecutive blocks, the
\* destination set of either is a subset of the source set of the other
\* (the earlier block's destination nodes are the later block's source nodes).
C4_BlockChain ==
  blk_status = "ok" =>
    /\ Len(blocks) = Len(fanouts)
    /\ SeqToSet(blocks[Len(blocks)].dst) = SeqToSet(seed_nodes)
    /\ Len(blocks[Len(blocks)].dst) = Len(seed_nodes)
    /\ \A l \in 1 .. (Len(blocks) - 1) :
         /\ SeqToSet(blocks[l].dst) \subseteq SeqToSet(blocks[l + 1].src)
         /\ SeqToSet(blocks[l + 1].dst) \subseteq SeqToSet(blocks[l].src)

\* two blocks from two seed nodes, the node set growing at both layers
C4_Witness ==
  /\ blk_status = "ok"
  /\ Len(blocks) = 2
  /\ Len(seed_nodes) = 2
  /\ Len(blocks[2].src) > Len(blocks[2].dst)
  /\ Len(blocks[1].src) > Len(blocks[1].dst)

\* C5: in the block of a layer with fan-out f, a destination node with more
\* than f incoming edges has exactly f of them, a node with no more than f
\* (or any node when all neighbours are taken) has all of them; no edge is
\* selected twice, every selected edge is an edge of the graph that ends at
\* a destination node of the block, and sampling a node is never an error,
\* whatever the fan-out.
C5_FanoutPerNode ==
  blk_status = "ok" =>
    \A l \in 1 .. Len(blocks) :
      /\ \A i \in 1 .. Len(blocks[l].edges) :
           /\ blocks[l].edges[i] \in EdgeIds(graph)
           /\ EdgeDst(graph, blocks[l].edges[i]) \in SeqToSet(blocks[l].dst)
           /\ \A j \in 1 .. Len(blocks[l].edges) :
                i # j => blocks[l].edges[i] # blocks[l].edges[j]
      /\ \A v \in SeqToSet(blocks[l].dst) :
           /\ Cardinality(EdgesInto(blocks[l], v)) =
                IF fanouts[l] # TakeAll /\ in_degrees(graph)[v] > fanouts[l]
                THEN fanouts[l] ELSE in_degrees(graph)[v]
           /\ \A f \in FanoutValues : SampleInEdges(graph, v, f, dgl_rng) # {}

\* one block with a node that has more incoming edges than the fan-out, and
\* a node that has fewer, at least one
C5_Witness ==
  /\ blk_status = "ok"
  /\ \E l \in 1 .. Len(blocks) : \E v, w \in SeqToSet(blocks[l].dst) :
       /\ fanouts[l] >= 2
       /\ in_degrees(graph)[v] > fanouts[l]
       /\ Cardinality(EdgesInto(blocks[l], v)) = fanouts[l]
       /\ in_degrees(graph)[w] > 0
       /\ in_degrees(graph)[w] < fanouts[l]
       /\ Cardinality(EdgesInto(blocks[l], w)) = in_degrees(graph)[w]

\* C6, as stated: the source set of a block of a layer with fan-out f has at
\* most |frontier| * f nodes, frontier the destination set of the block.
C6_SourcesWithinFanout ==
  blk_status = "ok" =>
    \A l \in 1 .. Len(blocks) :
      fanouts[l] # TakeAll =>
        Len(blocks[l].src) <= Len(blocks[l].dst) * fanouts[l]

\* C6, amended: the block has at most |frontier| * f edges, hence at most
\* |frontier| * f source nodes outside the frontier; its source set holds
\* the frontier as well and has at most |frontier| * (f + 1) nodes.
C6_SourcesWithinFanoutPlusFrontier ==
  blk_status = "ok" =>
    \A l \in 1 .. Len(blocks) :
      fanouts[l] # TakeAll =>
        /\ Len(blocks[l].edges) <= Len(blocks[l].dst) * fanouts[l]
        /\ Cardinality(SeqToSet(blocks[l].src) \ SeqToSet(blocks[l].dst))
             <= Len(blocks[l].dst) * fanouts[l]
        /\ Len(blocks[l].src) <= Len(blocks[l].dst) * (fanouts[l] + 1)

\* a block of a layer that sampled (a node has more incoming edges than the
\* fan-out) whose source set is larger than |frontier| * f
C6_Witness ==
  /\ blk_status = "ok"
  /\ \E l \in 1 .. Len(blocks) :
       /\ fanouts[l] # TakeAll
       /\ \E v \in SeqToSet(blocks[l].dst) : in_degrees(graph)[v] > fanouts[l]
       /\ Len(blocks[l].src) > Len(blocks[l].dst) * fanouts[l]

\* the scenario: the 5-node path 0 -> 1 -> 2 -> 3 -> 4, fan-out list [2],
\* seed node 4
ChainScenario ==
  /\ blk_status = "ok"
  /\ graph = ChainGraph
  /\ fanouts = <<2>>
  /\ seed_nodes = <<4>>

\* C7, as stated: in the scenario the one block has destination set {4} and
\* source set exactly {3}.
C7_ChainSourcesOnlyPredecessor ==
  ChainScenario =>
    /\ Len(blocks) = 1
    /\ SeqToSet(blocks[1].dst) = {4}
    /\ SeqToSet(blocks[1].src) = {3}

\* C7, amended: in the scenario the one block has destination set {4}, the
\* single edge (3, 4), and source set {3, 4}: the seed node first, then its
\* only predecessor.
C7_ChainSourcesWithSeed ==
  ChainScenario =>
    /\ Len(blocks) = 1
    /\ blocks[1].dst = <<4>>
    /\ blocks[1].edges = <<3>>
    /\ blocks[1].src = <<4, 3>>

\* the scenario has run and the fan-out of 2 met a node with one predecessor
C7_Witness ==
  /\ ChainScenario
  /\ in_degrees(graph)[4] = 1
  /\ Len(blocks[1].edges) = 1

\* C8, as stated: every block's source set is strictly larger than its
\* destination set.
C8_StrictlyShrinking ==
  blk_status = "ok" =>
    \A l \in 1 .. Len(blocks) :
      Cardinality(SeqToSet(blocks[l].src)) > Cardinality(SeqToSet(blocks[l].dst))

\* C8, amended: every block's source nodes are its destination nodes, in
\* the same order, followed by the sources of its edges that are not
\* destination nodes, each once; the source set is a superset of the
\* destination set, equal to it when no edge comes from outside (no
\* predecessor, or all sampled predecessors in the frontier), and the sizes
\* do not increase along the chain.
C8_WeaklyShrinking ==
  blk_status = "ok" =>
    /\ \A l \in 1 .. Len(blocks) :
         /\ SubSeq(blocks[l].src, 1, Len(blocks[l].dst)) = blocks[l].dst
         /\ Cardinality(SeqToSet(blocks[l].src)) = Len(blocks[l].src)
         /\ Len(blocks[l].src) = Len(blocks[l].dst) +
              Cardinality(EdgeSources(blocks[l]) \ SeqToSet(blocks[l].dst))
    /\ \A l \in 1 .. (Len(blocks) - 1) :
         Len(blocks[l].src) >= Len(blocks[l + 1].src)

\* a block with edges, all from frontier nodes, whose source set is its
\* destination set; and a block of a node that has no predecessor
C8_Witness ==
  /\ blk_status = "ok"
  /\ \E l \in 1 .. Len(blocks) :
       /\ blocks[l].src = blocks[l].dst
       /\ blocks[l].edges # << >>
       /\ \E v \in SeqToSet(blocks[l].dst) : in_degrees(graph)[v] = 0

\* C9: a call of the block builder on any seed nodes returns, with one block
\* per layer; a destination node that has no predecessor has no edge in its
\* block and adds nothing to it: the block's edges are the edges of the
\* graph sampled for the destination nodes that have predecessors, each
\* ending at such a node.
C9_NoPredecessorNoEdge ==
  /\ \A s \in SeedBatches(graph) :
       fanouts # << >> => sample_blocks(fanouts, graph, s, dgl_rng) # {}
  /\ blk_status = "ok" =>
       /\ Len(blocks) = Len(fanouts)
       /\ \A l \in 1 .. Len(blocks) :
            /\ \A v \in SeqToSet(blocks[l].dst) :
                 in_degrees(graph)[v] = 0 => EdgesInto(blocks[l], v) = {}
            /\ \A i \in 1 .. Len(blocks[l].edges) :
                 /\ blocks[l].edges[i] \in EdgeIds(graph)
                 /\ EdgeDst(graph, blocks[l].edges[i]) \in
                      {v \in SeqToSet(blocks[l].dst) : in_degrees(graph)[v] > 0}
                 /\ EdgeSrc(graph, blocks[l].edges[i]) \in SeqToSet(blocks[l].src)

\* two layers over a seed node without predecessors next to one that has
\* some
C9_Witness ==
  /\ blk_status = "ok"
  /\ Len(blocks) = 2
  /\ \E v, w \in SeqToSet(seed_nodes) :
       /\ in_degrees(graph)[v] = 0
       /\ in_degrees(graph)[w] > 0
       /\ EdgesInto(blocks[2], v) = {}
       /\ EdgesInto(blocks[2], w) # {}

Created == DOMAIN part_nids

\* the positions of ids (1-based) that hold an entry of part, ids distinct
PositionsOf(part, ids) == {i \in 1 .. Len(ids) : ids[i] \in SeqToSet(part)}

\* C16: the data loader of rank r is built, for every node type, on the ids
\* at the (0-based) positions r * (len // world_size) up to, not including,
\* (r + 1) * (len // world_size), in the order of the list; two ranks share
\* no position and all ranks have the same number of ids of the type.
C16_ContiguousEqualPartitions ==
  session = "part" =>
    \A ntype \in NodeTypes :
      LET size == Len(nids[ntype]) \div world_size
      IN /\ \A r \in Created :
              /\ Len(part_nids[r][ntype]) = size
              /\ \A i \in 1 .. size :
                   part_nids[r][ntype][i] = nids[ntype][(r * size) + i]
              /\ PositionsOf(part_nids[r][ntype], nids[ntype])
                   = ((r * size) + 1) .. ((r + 1) * size)
         /\ \A r, q \in Created :
              r # q => PositionsOf(part_nids[r][ntype], nids[ntype])
                         \cap PositionsOf(part_nids[q][ntype], nids[ntype]) = {}

\* three ranks have their data loaders, built on a list whose length is not
\* a multiple of 3 and on one whose length is
C16_Witness ==
  /\ session = "part"
  /\ world_size = 3
  /\ Created = 0 .. 2
  /\ Len(nids["paper"]) = 4
  /\ Len(part_nids[2]["paper"]) = 1
  /\ Len(nids["author"]) = 3

\* C17, as stated: once every rank has its data loader, every node id of the
\* list is in the partition of some rank.
C17_PartitionsCoverAll ==
  (session = "part" /\ Created = 0 .. (world_size - 1)) =>
    \A ntype \in NodeTypes :
      UNION {SeqToSet(part_nids[r][ntype]) : r \in Created} = SeqToSet(nids[ntype])

\* C20: after the split of a graph with at least TestSize edges, the test
\* set has exactly TestSize edge ids, the training set all the others: no
\* edge id is in both, none is twice in one, and together they are the edge
\* ids 0 .. num_edges - 1.
C20_SplitIsPartition ==
  (split = "done" /\ num_edges >= TestSize) =>
    /\ Len(test_eids) = TestSize
    /\ Len(train_eids) = num_edges - TestSize
    /\ Cardinality(SeqToSet(test_eids)) = TestSize
    /\ Cardinality(SeqToSet(train_eids)) = num_edges - TestSize
    /\ SeqToSet(test_eids) \cap SeqToSet(train_eids) = {}
    /\ SeqToSet(test_eids) \cup SeqToSet(train_eids) = 0 .. (num_edges - 1)

\* a split of more than TestSize edges by a permutation that moves edges
C20_Witness ==
  /\ split = "done"
  /\ num_edges > TestSize + 1
  /\ test_eids[1] > train_eids[1]
  /\ train_eids[1] > train_eids[2]

\* a sampler built with k below 1, or on a graph without nodes
InvalidSampler == session = "neg" /\ (k < 1 \/ graph.num_nodes = 0)

C14_WeightsShape ==
  session = "neg" =>
    /\ DOMAIN weights = NodesOf(graph)
    /\ Cardinality(DOMAIN weights) = graph.num_nodes
    /\ \A v \in NodesOf(graph) :
         /\ weights[v] >= 0
         /\ (weights[v] = 0) <=> (in_degrees(graph)[v] = 0)

\* after a call that returned, on a graph with a node of in-degree zero, a
\* node of in-degree one and a node of larger in-degree
C14_Witness ==
  /\ session = "neg"
  /\ neg_status = "ok"
  /\ \E u, v, w \in NodesOf(graph) :
       /\ in_degrees(graph)[u] = 0
       /\ in_degrees(graph)[v] = 1
       /\ in_degrees(graph)[w] > 1
       /\ weights[w] > weights[v]

\* C13, as stated: with a fan-out of zero in the list (not the take-all
\* setting), batch construction does not return blocks.
C13_ZeroFanoutRejected ==
  (session = "blk" /\ \E l \in 1 .. Len(fanouts) : fanouts[l] = 0) =>
    blk_status # "ok"

\* rank r has completed all its training steps of epoch e
FinishedTraining(r, e) ==
  \/ epoch[r] > e
  \/ /\ epoch[r] = e
     /\ r \in DOMAIN part_nids
     /\ step[r] = NumBatches(part_nids[r])
     /\ pc[r] \in {"barrier1", "valid", "barrier2", "failed"}

\* C15: while rank 0 validates epoch e, every rank has completed all its
\* training steps of epoch e and the other ranks wait at the barrier that
\* ends the epoch (or have exited); and a rank is in epoch e + 1, or done,
\* only when rank 0 has validated and checkpointed the epochs up to e.
C15_BarrierOrder ==
  session = "train" =>
    /\ pc[0] = "valid" =>
         /\ Len(accs) = epoch[0]
         /\ \A r \in Ranks :
              /\ FinishedTraining(r, epoch[0])
              /\ r # 0 => (epoch[r] = epoch[0] /\ pc[r] \in {"barrier2", "failed"})
    /\ \A r \in Ranks : Len(accs) >= epoch[r]
    /\ \A r, q \in Ranks :
         (pc[r] \in {"train", "allreduce"} /\ pc[q] # "failed") => epoch[q] = epoch[r]

\* rank 0 validates the second epoch after two training steps in every rank
C15_Witness ==
  /\ session = "train"
  /\ pc[0] = "valid"
  /\ epoch[0] = 1
  /\ \A r \in Ranks : step[r] = 2 /\ pc[r] # "failed"

\* every process has exited and the parent has joined them all
TrainOver ==
  /\ \A r \in Ranks : pc[r] \in {"done", "failed"}
  /\ joined = world_size

\* C18, as stated: after the failure of a worker the others are never
\* stuck: either all processes have exited and are joined, with every
\* surviving worker done with its epochs, or a step can be taken.
C18_SurvivorsFinish ==
  (session = "train" /\ \E r \in Ranks : pc[r] = "failed") =>
    (TrainOver \/ ENABLED NextTrain)

\* the largest of the accuracies validated so far, 0 when there is none
MaxAcc == IF accs = << >> THEN 0
          ELSE CHOOSE a \in SeqToSet(accs) : \A b \in SeqToSet(accs) : b <= a

\* C19, as stated: best_accuracy is the largest validation accuracy so far;
\* model.pt, once written, holds the parameters of the earliest epoch that
\* reached it; and after the last validation model.pt exists.
C19_BestModelSaved ==
  session = "train" =>
    /\ best_accuracy[0] = MaxAcc
    /\ model_pt # << >> =>
         /\ accs[model_pt[1] + 1] = MaxAcc
         /\ \A e \in 1 .. model_pt[1] : accs[e] < MaxAcc
    /\ Len(accs) = NumEpochs => model_pt # << >>

\* C11: the graph, the sampler's k and its weights never change, whatever
\* step is taken: a call of the negative sampler, or a step of a worker's
\* train(); and the weights are at all times the ones computed from the
\* graph at construction.
C11_ReadOnlyGraphAndSampler ==
  /\ [](session = "neg" => weights = NegativeSampler_init(graph, k).weights)
  /\ [][graph' = graph /\ k' = k /\ weights' = weights]_vars

\* the sampler has been called, has returned, and drew from its weights
C11_Witness ==
  /\ session = "neg"
  /\ neg_status = "ok"
  /\ Len(dst_neg) >= 2
  /\ weights = InitWeights(graph)
  /\ \E v \in NodesOf(graph) : weights[v] > 0

\* C21: every pair the enumeration of the missing edges yields is a missing
\* link: not an edge of the graph, and not a pair of a node with itself
C21_NegativesAreMissingLinks ==
  lp_status = "ok" =>
    \A i \in 1 .. Len(neg_pairs) :
      /\ ~IsEdge(graph, neg_pairs[i][1], neg_pairs[i][2])
      /\ neg_pairs[i][1] # neg_pairs[i][2]

\* C22: the negative pairs for testing and the negative pairs for training
\* are equally many: NegTestSize (500) each
C22_EquallyManyNegatives ==
  lp_status = "ok" =>
    /\ Len(test_neg) = NegTestSize
    /\ Len(train_neg) = NegTestSize

\* C30: the chosen indices are pairwise distinct, and no negative pair is
\* both a test pair and a training pair
C30_NegativeSplitDisjoint ==
  lp_status = "ok" =>
    /\ \A i, j \in 1 .. Len(neg_eids) : i # j => neg_eids[i] # neg_eids[j]
    /\ SeqToSet(test_neg) \cap SeqToSet(train_neg) = {}

\* of res equally likely variates, those that make a draw return node v
DrawsOf(w, v, res) == Cardinality({r \in 0 .. (res - 1) : InvertCdfAt(w, r, res) = v})

Barriers == {"barrier0", "barrier1", "barrier2"}

\* C25: when no process fails, the k-th barrier call of a rank is the k-th
\* barrier call of every rank; a barrier a rank waits in is entered by all
\* ranks; a rank returns from train() after 1 + 2 * NumEpochs barrier calls;
\* and in the end every worker has returned and the parent has joined them
C25_SameBarriersAndTermination ==
  /\ [](\A at \in Barriers :
          AllArrived(at) => \A r, q \in Ranks : barriers[r] = barriers[q])
  /\ [](\A r \in Ranks : pc[r] = "done" => barriers[r] = 1 + 2 * NumEpochs)
  /\ \A at \in Barriers : (\E r \in Ranks : pc[r] = at) ~> AllArrived(at)
  /\ <>(TrainOver /\ \A r \in Ranks : pc[r] = "done")

\* all workers have run their training steps and epochs, and are joined
C25_Witness ==
  /\ session = "train"
  /\ TrainOver
  /\ \A r \in Ranks : pc[r] = "done" /\ barriers[r] = 1 + 2 * NumEpochs
  /\ \A r \in Ranks : NumBatches(part_nids[r]) >= 1

\* C26: all ranks have equally large partitions and equally many training
\* batches; a rank waits in a gradient synchronisation only with all other
\* running ranks in the same training step of the same epoch, about to
\* enter it or in it; and no rank is at the barrier after the training
\* steps while another waits in a gradient synchronisation
C26_StepsInLockstep ==
  session = "train" =>
    /\ \A r, q \in Created :
         /\ NumSeeds(part_nids[r]) = NumSeeds(part_nids[q])
         /\ NumBatches(part_nids[r]) = NumBatches(part_nids[q])
    /\ \A r, q \in Ranks :
         (pc[r] = "allreduce" /\ pc[q] # "failed") =>
           /\ pc[q] \in {"train", "allreduce"}
           /\ epoch[q] = epoch[r]
           /\ step[q] = step[r]
           /\ step[q] < NumBatches(part_nids[q])
    /\ \A r, q \in Ranks : ~(pc[r] = "barrier1" /\ pc[q] = "allreduce")

\* a rank waits in the gradient synchronisation of its second training step
C26_Witness ==
  /\ session = "train"
  /\ \E r, q \in Ranks :
       /\ r # q
       /\ pc[r] = "allreduce" /\ step[r] = 1
       /\ pc[q] = "train" /\ step[q] = 1

\* C27: only rank 0 writes model.pt or changes a best_accuracy, its own; it
\* does so after the barrier that follows its training steps and before the
\* barrier that ends the epoch, while every other rank waits in that
\* barrier of the same epoch (or has exited)
C27_OnlyRankZeroCheckpoints ==
  /\ [](session = "train" =>
          /\ writers \subseteq {0}
          /\ \A r \in Ranks : r # 0 => best_accuracy[r] = 0)
  /\ [][(model_pt' # model_pt \/ best_accuracy' # best_accuracy \/ writers' # writers) =>
          /\ pc[0] = "valid" /\ pc'[0] = "barrier2"
          /\ \A r \in Ranks : r # 0 =>
               /\ pc[r] \in {"barrier2", "failed"} /\ pc'[r] = pc[r]
               /\ pc[r] = "barrier2" => epoch[r] = epoch[0]
               /\ best_accuracy'[r] = best_accuracy[r]]_vars

\* rank 0 has saved a checkpoint in the second epoch
C27_Witness ==
  /\ session = "train"
  /\ writers = {0}
  /\ model_pt = <<1>>
  /\ best_accuracy[0] > 0

\* C28, as stated: every validation forward pass calls the unwrapped
\* module, and no rank waits in a collective that it has entered alone
C28_ValidationCallsModule ==
  session = "train" =>
    /\ valid_forward \in {"none", "module"}
    /\ \A r \in Ranks : pc[r] # "bcast"

\* C28, amended: the validation forward pass calls the unwrapped module in
\* the homogeneous train() and the DistributedDataParallel wrapper in the
\* heterogeneous one; in neither does a rank enter a collective alone
C28_ValidationWithoutCollective ==
  session = "train" =>
    /\ valid_forward \in {"none", ValidationCallee(variant)}
    /\ (variant = "homogeneous" /\ valid_forward # "none") => valid_forward = "module"
    /\ (variant = "heterogeneous" /\ valid_forward # "none") => valid_forward = "wrapper"
    /\ \A r \in Ranks : pc[r] # "bcast"

\* rank 0 of the heterogeneous train() has validated through the wrapper and
\* all ranks have gone on to the next epoch
C28_Witness ==
  /\ session = "train"
  /\ variant = "heterogeneous"
  /\ valid_forward = "wrapper"
  /\ \A r \in Ranks : epoch[r] = 1 /\ pc[r] = "train"

\* C29: a constructed model has exactly n_layers layers; a forward pass on
\* as many blocks as the sampler has fan-outs, n_layers of them, runs every
\* layer on its own block, in order, with ReLU after every layer but the
\* last one built; and the fan-out list of every configured pipeline is as
\* long as the list of layers of its model
C29_LayersMatchBlocks ==
  session = "model" =>
    /\ mdl_status # "none" => Len(mdl_layers) = mdl_n_layers
    /\ (mdl_status = "run" /\ mdl_blocks = mdl_n_layers) =>
         /\ Len(mdl_trace) = Len(mdl_layers)
         /\ Len(mdl_trace) = mdl_blocks
         /\ \A i \in 1 .. Len(mdl_trace) :
              /\ mdl_trace[i].layer = i - 1
              /\ mdl_trace[i].block = i - 1
              /\ mdl_trace[i].relu = (i # Len(mdl_layers))
    /\ \A p \in Pipelines :
         Len(p.fanouts) = Len(model_init(p.kind, p.n_layers))

\* the rows of the batches consumed so far in the pass
WrittenSoFar == {v \in NodesOf(graph) : v < inf_b * inf_batch_size}

\* C24: in the pass of a layer every row of output_features is written by
\* exactly one batch, the one its node is an output node of; what a batch
\* reads is the complete output of the layer before (the given features
\* for the first layer), and input_features changes only at the end of a
\* pass, when every row has been written once; the buffer returned has a
\* row for every node, written once, by the last layer
C24_LayerWiseInference ==
  /\ [](session = "inf" =>
          /\ inf_pc = "batch" =>
               /\ \A v \in NodesOf(graph) : input_features[v] = inf_l
               /\ inf_read \subseteq {inf_l}
               /\ \A v \in NodesOf(graph) :
                    output_features[v] =
                      IF v \in WrittenSoFar THEN [layer |-> inf_l + 1, writes |-> 1]
                      ELSE [layer |-> -1, writes |-> 0]
          /\ inf_pc = "done" =>
               /\ DOMAIN inf_result = NodesOf(graph)
               /\ \A v \in NodesOf(graph) :
                    inf_result[v] = [layer |-> inf_layers, writes |-> 1])
  /\ [][input_features' # input_features =>
          /\ inf_pc = "batch"
          /\ inf_b = NumInferenceBatches(graph.num_nodes, inf_batch_size)
          /\ \A v \in NodesOf(graph) : output_features[v].writes = 1
          /\ \A v \in NodesOf(graph) : input_features'[v] = inf_l + 1]_vars

\* the inference of a model of two layers has returned, every pass made of
\* several batches, one of which read the row of a node of an earlier batch
C24_Witness ==
  /\ session = "inf"
  /\ inf_pc = "done"
  /\ inf_layers = 2
  /\ inf_read = {1}
  /\ graph.num_nodes > inf_batch_size
  /\ \E e \in EdgeIds(graph) : EdgeSrc(graph, e) < EdgeDst(graph, e)

=============================================================================
